---- MODULE Spec2Model ----
(***************************************************************************)
(* The grading core of the assessment portal: question-bank indexing,      *)
(* MCQ answer matching, score aggregation (faculty_marks_entry.py) and the *)
(* student submission write (main.py) against the Firestore collection     *)
(* student_responses.                                                      *)
(*                                                                         *)
(* Representation.                                                         *)
(*  - A Python str is a sequence of one-character strings, so that strip,  *)
(*    lower, upper and concatenation are computed character by character.  *)
(*  - A float is [k |-> "num", v |-> n] with n counted in HALF marks       *)
(*    (v = 3 is 1.5), or NaNF.  Sums of halves are exact in binary         *)
(*    floating point, so + on v is Python's + on these values.             *)
(*  - A pandas cell is a Cell: NaN, a number (in half marks) or a string.  *)
(*  - A timestamp is the opaque value of the call that made it: the clock *)
(*    is not modelled, and time.strftime and utcnow().isoformat() give     *)
(*    values of different formats.                                         *)
(*  - A Firestore document is a function from the field names it holds to  *)
(*    their values; an absent field is not in its DOMAIN.                  *)
(***************************************************************************)
EXTENDS Integers, Sequences, FiniteSets, TLC

VARIABLES
    store,      \* collection student_responses: doc id -> document
    cache,      \* st.cache_data entry of fetch_submissions: [valid, docs]
    bank,       \* the section CSV as it is on disk now (a DataFrame)
    lastOp,     \* history: the last write made to the store (rep: it repeats
                \* the write before it, n: flips at every write)
    arg,        \* input of the pure function under study
    ret,        \* its result
    runs,       \* grading sessions: the script run each one has in progress
    hadShort    \* history: ids of the documents whose Responses have at
                \* some time held a short-type response

vars == <<store, cache, bank, lastOp, arg, ret, runs, hadShort>>

(* ------------------------------ bounds --------------------------------- *)
MaxOpts == 2
MaxResp == 3

(* ------------------------------ strings -------------------------------- *)
LowerAlpha == <<"a","b","c","d","e","f","g","h","i","j","k","l","m",
                "n","o","p","q","r","s","t","u","v","w","x","y","z">>
UpperAlpha == <<"A","B","C","D","E","F","G","H","I","J","K","L","M",
                "N","O","P","Q","R","S","T","U","V","W","X","Y","Z">>

Range(f) == {f[i] : i \in DOMAIN f}

LowerOf == [c \in Range(UpperAlpha) |->
               LowerAlpha[CHOOSE i \in 1..26 : UpperAlpha[i] = c]]
UpperOf == [c \in Range(LowerAlpha) |->
               UpperAlpha[CHOOSE i \in 1..26 : LowerAlpha[i] = c]]

lower_char(c) == IF c \in DOMAIN LowerOf THEN LowerOf[c] ELSE c
upper_char(c) == IF c \in DOMAIN UpperOf THEN UpperOf[c] ELSE c

RECURSIVE MapChars(_, _)
MapChars(s, up) ==
    IF s = <<>> THEN <<>>
    ELSE <<IF up THEN upper_char(Head(s)) ELSE lower_char(Head(s))>>
         \o MapChars(Tail(s), up)

lower(s) == MapChars(s, FALSE)
upper(s) == MapChars(s, TRUE)

RECURSIVE lstrip(_)
lstrip(s) == IF s # <<>> /\ Head(s) = " " THEN lstrip(Tail(s)) ELSE s

RECURSIVE rstrip(_)
rstrip(s) ==
    IF s # <<>> /\ s[Len(s)] = " " THEN rstrip(SubSeq(s, 1, Len(s) - 1)) ELSE s

strip(s) == lstrip(rstrip(s))

RECURSIVE replace_space(_)
replace_space(s) ==
    IF s = <<>> THEN <<>>
    ELSE <<IF Head(s) = " " THEN "_" ELSE Head(s)>> \o replace_space(Tail(s))

(* list.index(x): the FIRST position of x, 0-based *)
list_index(l, x) ==
    CHOOSE i \in 0..(Len(l) - 1) :
        l[i + 1] = x /\ \A j \in 0..(i - 1) : l[j + 1] # x

(* ------------------------------ values --------------------------------- *)
NaNF == [k |-> "nan", v |-> 0]
Num(n) == [k |-> "num", v |-> n]
Float(n) == Num(2 * n)                       \* float(n) of a whole number n
FAdd(a, b) == IF a.k = "nan" \/ b.k = "nan" THEN NaNF ELSE Num(a.v + b.v)

NaNCell == [k |-> "nan", v |-> 0, s |-> <<>>]
NumCell(h) == [k |-> "num", v |-> h, s |-> <<>>]
StrCell(s) == [k |-> "str", v |-> 0, s |-> s]

notna(c) == c.k # "nan"
(* str(cell): str(nan) is "nan"; number cells are not used as text *)
str(c) == IF c.k = "nan" THEN <<"n","a","n">> ELSE c.s

T_mcq == <<"m","c","q">>
T_short == <<"s","h","o","r","t">>
T_info == <<"i","n","f","o">>


(* ----------------------- question bank indexing ------------------------ *)
(* A DataFrame is [columns |-> the weight-alias columns the CSV has,       *)
(* rows |-> its rows]; a row is [QuestionID, Type, Correct : Cell,         *)
(* Options : Seq(Cell), Marks, Max, MaxMarks, Weight : Cell].              *)

WeightAliases == <<"Marks", "Max", "MaxMarks", "Weight">>
CapAliases == <<"Max", "Marks", "MaxMarks", "Weight">>

(* for cand in order: if cand in df.columns and pd.notna(row.get(cand)):   *)
(* the position of the first such alias, 0 when the loop finds none        *)
first_present(df, row, order) ==
    IF \E i \in 1..Len(order) : order[i] \in df.columns /\ notna(row[order[i]])
    THEN CHOOSE i \in 1..Len(order) :
            /\ order[i] \in df.columns /\ notna(row[order[i]])
            /\ \A j \in 1..(i - 1) :
                   ~(order[j] \in df.columns /\ notna(row[order[j]]))
    ELSE 0

(* A mutant: a non-numeric alias is skipped and the search goes on.        *)
resolve_marks_skip(df, row) ==
    LET num(i) == WeightAliases[i] \in df.columns /\ row[WeightAliases[i]].k = "num"
    IN  IF \E i \in 1..4 : num(i)
        THEN row[WeightAliases[CHOOSE i \in 1..4 :
                    num(i) /\ \A j \in 1..(i - 1) : ~num(j)]].v
        ELSE 2

(* marks of one row, in half marks: float(row[cand]) of the first present  *)
(* alias, the loop ending there whether or not float() raised; else 1.0    *)
resolve_marks(df, row) ==
    LET i == first_present(df, row, WeightAliases)
    IN  IF i # 0 /\ row[WeightAliases[i]].k = "num"
        THEN row[WeightAliases[i]].v
        ELSE 2

row_qid(row) == strip(str(row.QuestionID))
row_type(row) == lower(strip(str(row.Type)))

(* opts: the non-NaN option cells, stripped and lower-cased, in order *)
RECURSIVE row_options(_)
row_options(cells) ==
    IF cells = <<>> THEN <<>>
    ELSE (IF notna(Head(cells)) THEN <<lower(strip(str(Head(cells))))>> ELSE <<>>)
         \o row_options(Tail(cells))

qmeta_of(df, row) ==
    [type |-> row_type(row),
     marks |-> resolve_marks(df, row),
     correct |-> strip(str(row.Correct)),
     options |-> row_options(row.Options)]

(* out[qid] = {...} for each row with a qid, a later row replacing an      *)
(* earlier one with the same qid                                           *)
RECURSIVE index_rows(_, _)
index_rows(df, n) ==
    IF n = 0 THEN <<>>
    ELSE LET prev == index_rows(df, n - 1)
             row == df.rows[n]
             qid == row_qid(row)
         IN  IF qid = <<>> THEN prev
             ELSE [q \in DOMAIN prev \cup {qid} |->
                      IF q = qid THEN qmeta_of(df, row) ELSE prev[q]]

df_mcq_index(df) == index_rows(df, Len(df.rows))

(* ---------------------------- answer matching --------------------------- *)
normalize_answer(text) == lower(strip(text))

in_letters(s) == Len(s) = 1 /\ s[1] \in {"a", "b", "c", "d", "e"}
letters(s) == (CHOOSE i \in 1..5 : LowerAlpha[i] = s[1]) - 1
Digits == <<"1", "2", "3", "4", "5">>
in_nums(s) == Len(s) = 1 /\ s[1] \in Range(Digits)

(* A mutant: the digit is taken as a 0-based index.                        *)
nums_zero_based(s) == CHOOSE i \in 1..5 : Digits[i] = s[1]

nums(s) == (CHOOSE i \in 1..5 : Digits[i] = s[1]) - 1

None == -1

(* corr_idx: letter, then digit, then option text, else None *)
corr_index(corr_l, opts) ==
    IF in_letters(corr_l) THEN letters(corr_l)
    ELSE IF in_nums(corr_l) THEN nums(corr_l)
    ELSE IF corr_l \in Range(opts) THEN list_index(opts, corr_l)
    ELSE None

(* A mutant: an unresolvable specifier is taken as the first option.       *)
index_match_none_is_first(ans_idx, corr_idx) ==
    ans_idx = (IF corr_idx = None THEN 0 ELSE corr_idx)

(* if corr_idx is None: return False; return ans_idx == corr_idx *)
index_match(ans_idx, corr_idx) ==
    IF corr_idx = None THEN FALSE ELSE ans_idx = corr_idx

mcq_match(student_answer, qmeta) ==
    LET ans == normalize_answer(student_answer)
        corr == strip(qmeta.correct)
        opts == qmeta.options
    IN  IF ans = <<>> THEN FALSE
        ELSE IF ans \in Range(opts)
             THEN index_match(list_index(opts, ans),
                              corr_index(normalize_answer(corr), opts))
        ELSE IF in_letters(ans)
             THEN index_match(letters(ans),
                              corr_index(normalize_answer(corr), opts))
        ELSE IF in_nums(ans)
             THEN index_match(nums(ans),
                              corr_index(normalize_answer(corr), opts))
        ELSE ans = normalize_answer(corr)


(* ---------------------------- score aggregation ------------------------- *)
(* A response is [QuestionID, Type, Response], each a string.              *)

(* float(idx[qid]["marks"] or 1.0), in half marks: 0.0 is falsy *)
added_marks(marks) == IF marks = 0 THEN 2 ELSE marks

(* A mutant: the loop ends at the first response that is not mcq.          *)
RECURSIVE score_loop_break(_, _, _)
score_loop_break(idx, responses, acc) ==
    IF responses = <<>> THEN acc
    ELSE LET r == Head(responses)
             qid == strip(r.QuestionID)
         IN  IF lower(r.Type) # T_mcq THEN acc
             ELSE IF qid = <<>> \/ qid \notin DOMAIN idx
                  THEN score_loop_break(idx, Tail(responses), acc)
             ELSE LET hit == mcq_match(r.Response, idx[qid])
                  IN  score_loop_break(idx, Tail(responses),
                        [score |-> IF hit THEN acc.score + added_marks(idx[qid].marks)
                                   ELSE acc.score,
                         detail |-> [q \in DOMAIN acc.detail \cup {qid} |->
                                        IF q = qid THEN (IF hit THEN 1 ELSE 0)
                                        ELSE acc.detail[q]]])

(* for r in responses: ... ; acc is (score, detail) so far *)
RECURSIVE score_loop(_, _, _)
score_loop(idx, responses, acc) ==
    IF responses = <<>> THEN acc
    ELSE LET r == Head(responses)
             qid == strip(r.QuestionID)
         IN  IF lower(r.Type) # T_mcq
             THEN score_loop(idx, Tail(responses), acc)
             ELSE IF qid = <<>> \/ qid \notin DOMAIN idx
                  THEN score_loop(idx, Tail(responses), acc)
             ELSE LET hit == mcq_match(r.Response, idx[qid])
                  IN  score_loop(idx, Tail(responses),
                        [score |-> IF hit THEN acc.score + added_marks(idx[qid].marks)
                                   ELSE acc.score,
                         detail |-> [q \in DOMAIN acc.detail \cup {qid} |->
                                        IF q = qid THEN (IF hit THEN 1 ELSE 0)
                                        ELSE acc.detail[q]]])

(* A mutant: every response counts as a short item.                        *)
get_short_items_any(responses) == responses

(* returns [score (half marks), detail (qid -> 0/1)] *)
compute_auto_score(section_csv, responses) ==
    score_loop(df_mcq_index(section_csv), responses,
               [score |-> 0, detail |-> <<>>])

RECURSIVE get_short_items(_)
get_short_items(responses) ==
    IF responses = <<>> THEN <<>>
    ELSE (IF lower(Head(responses).Type) = T_short THEN <<Head(responses)>> ELSE <<>>)
         \o get_short_items(Tail(responses))

(* int(float(x)): truncation toward zero of a value in half marks *)
int_of(h) == IF h >= 0 THEN h \div 2 ELSE -((-h) \div 2)

max2(a, b) == IF a >= b THEN a ELSE b

(* A mutant: the cap is resolved in the weight's alias order.              *)
resolve_cap_weight_order(df, row) ==
    LET i == first_present(df, row, WeightAliases)
    IN  max2(1, IF i # 0 /\ row[WeightAliases[i]].k = "num"
                THEN int_of(row[WeightAliases[i]].v) ELSE 1)

(* max(1, mx) of one short row, in whole marks *)
resolve_cap(df, row) ==
    LET i == first_present(df, row, CapAliases)
    IN  max2(1, IF i # 0 /\ row[CapAliases[i]].k = "num"
                THEN int_of(row[CapAliases[i]].v) ELSE 1)

RECURSIVE cap_rows(_, _)
cap_rows(df, n) ==
    IF n = 0 THEN <<>>
    ELSE LET prev == cap_rows(df, n - 1)
             row == df.rows[n]
             qid == row_qid(row)
         IN  IF lower(strip(str(row.Type))) # T_short \/ qid = <<>> THEN prev
             ELSE [q \in DOMAIN prev \cup {qid} |->
                      IF q = qid THEN resolve_cap(df, row) ELSE prev[q]]

per_question_max_for_short(df) == cap_rows(df, Len(df.rows))


(* ------------------------------ the store ------------------------------- *)
RECURSIVE SumOver(_, _)
SumOver(m, S) ==
    IF S = {} THEN 0
    ELSE LET q == CHOOSE x \in S : TRUE IN m[q] + SumOver(m, S \ {q})

(* sum(int(v or 0) for v in short_marks.values()) *)
sum_values(m) == SumOver(m, DOMAIN m)

(* document(doc_id).set(data, merge=True): the field mask is the set of    *)
(* LEAF paths of data, so a non-empty map field (ShortMarks) is merged key *)
(* by key into the stored map, an empty map replaces it, and every other   *)
(* field (a list such as Responses included) is replaced as a whole.       *)
merge_field(f, old, data) ==
    IF f \notin DOMAIN data THEN old[f]
    ELSE IF f = "ShortMarks" /\ f \in DOMAIN old /\ DOMAIN data[f] # {}
         THEN [q \in DOMAIN old[f] \cup DOMAIN data[f] |->
                  IF q \in DOMAIN data[f] THEN data[f][q] ELSE old[f][q]]
         ELSE data[f]

merge_doc(old, data) ==
    [f \in DOMAIN old \cup DOMAIN data |-> merge_field(f, old, data)]

NoDoc == <<>>

doc_of(docs, id) == IF id \in DOMAIN docs THEN docs[id] ELSE NoDoc

(* A mutant: set(data) without merge=True replaces the document.           *)
set_merge_overwrite(docs, id, data) ==
    [d \in DOMAIN docs \cup {id} |-> IF d = id THEN data ELSE docs[d]]

set_merge(docs, id, data) ==
    [d \in DOMAIN docs \cup {id} |->
        IF d = id THEN merge_doc(doc_of(docs, id), data) ELSE docs[d]]

(* ------------------------------- main.py -------------------------------- *)
APTITUDE == <<"A","p","t","i","t","u","d","e"," ","T","e","s","t">>
ADAPTABILITY == <<"A","d","a","p","t","a","b","i","l","i","t","y"," ","&"," ","L","e","a","r","n","i","n","g">>
COMM_OBJECTIVE == <<"C","o","m","m","u","n","i","c","a","t","i","o","n"," ","S","k","i","l","l","s"," ","-"," ","O","b","j","e","c","t","i","v","e">>
COMM_DESCRIPTIVE == <<"C","o","m","m","u","n","i","c","a","t","i","o","n"," ","S","k","i","l","l","s"," ","-"," ","D","e","s","c","r","i","p","t","i","v","e">>
files == {APTITUDE, ADAPTABILITY, COMM_OBJECTIVE, COMM_DESCRIPTIVE}

is_letter(c) == c \in Range(LowerAlpha) \cup Range(UpperAlpha)

(* re.fullmatch(r"[A-Za-z]+(?: [A-Za-z]+)*", n.strip()) *)
valid_name(n) ==
    LET t == strip(n)
    IN  /\ t # <<>>
        /\ \A i \in 1..Len(t) : is_letter(t[i]) \/ t[i] = " "
        /\ \A i \in 1..(Len(t) - 1) : ~(t[i] = " " /\ t[i + 1] = " ")

(* " ".join(part.capitalize() for part in name.split()) of a valid name *)
capitalize_parts(t) ==
    [i \in 1..Len(t) |->
        IF i = 1 \/ t[i - 1] = " " THEN upper_char(t[i]) ELSE lower_char(t[i])]

clean_name(name) == IF valid_name(name) THEN capitalize_parts(strip(name)) ELSE name

(* A mutant: the document id leaves the roll's case as typed.              *)
doc_id_no_upper(roll, section) == roll \o <<"_">> \o replace_space(section)

(* f"{roll.upper()}_{section.replace(' ', '_')}" *)
doc_id(roll, section) == upper(roll) \o <<"_">> \o replace_space(section)

(* the options a student can pick: Option cells that are not NaN and not   *)
(* blank, stripped                                                         *)
RECURSIVE radio_options(_)
radio_options(cells) ==
    IF cells = <<>> THEN <<>>
    ELSE (IF notna(Head(cells)) /\ strip(str(Head(cells))) # <<>>
          THEN <<strip(str(Head(cells)))>> ELSE <<>>)
         \o radio_options(Tail(cells))

(* the responses list of one run of the form: rows of type info are        *)
(* skipped; picks[i] is the radio choice for row i, text the short answer  *)
RECURSIVE build_responses(_, _, _, _)
build_responses(rows, i, picks, text) ==
    IF i > Len(rows) THEN <<>>
    ELSE LET row == rows[i]
             qtype == lower(strip(str(row.Type)))
             opts == radio_options(row.Options)
             response ==
                 IF qtype = T_mcq
                 THEN (IF opts = <<>> THEN <<>> ELSE opts[picks[i]])
                 ELSE IF qtype = T_short THEN text
                 ELSE <<>>
         IN  (IF qtype = T_info THEN <<>>
              ELSE <<[QuestionID |-> str(row.QuestionID),
                      Type |-> qtype,
                      Response |-> response]>>)
             \o build_responses(rows, i + 1, picks, text)

valid_picks(rows, picks) ==
    \A i \in 1..Len(rows) :
        LET n == Len(radio_options(rows[i].Options))
        IN  IF lower(strip(str(rows[i].Type))) = T_mcq /\ n > 0
            THEN picks[i] <= n ELSE picks[i] = 1

submit_data(name, roll, section, responses) ==
    [Name |-> clean_name(name),
     Roll |-> upper(roll),
     Section |-> section,
     Timestamp |-> "strftime",
     Responses |-> responses]


(* ------------------------ faculty_marks_entry.py ------------------------ *)
NoCache == [valid |-> FALSE, docs |-> <<>>]

(* fetch_submissions(): the cached stream of the collection (ttl=20) or a  *)
(* fresh one                                                               *)
fetch_submissions == IF cache.valid THEN cache.docs ELSE store

(* df_all.columns: the fields some document holds *)
columns_of(df_all) == UNION {DOMAIN df_all[d] : d \in DOMAIN df_all}

(* the script reaches the grading form for `section`: df_all and the       *)
(* section's rows are not empty, and the columns the script indexes exist  *)
page_renders(df_all, section) ==
    /\ DOMAIN df_all # {}
    /\ {"Section", "Evaluated", "ShortMarksTotal", "AutoScore", "TotalScore",
        "Roll", "Name"} \subseteq columns_of(df_all)
    /\ {d \in DOMAIN df_all :
           "Section" \in DOMAIN df_all[d] /\ df_all[d].Section = section} # {}

section_docs(df_all, section) ==
    {d \in DOMAIN df_all :
        /\ "Section" \in DOMAIN df_all[d] /\ df_all[d].Section = section
        /\ "Responses" \in DOMAIN df_all[d]}

(* the keys of marks_to_save: the stripped QuestionID of each short item *)
short_qids(responses) ==
    {strip(it.QuestionID) : it \in Range(get_short_items(responses))}

(* int(short_max.get(qid, 1)) *)
radio_max(short_max, qid) == IF qid \in DOMAIN short_max THEN short_max[qid] ELSE 1

(* the maps the radios can produce: one score 0..mx per short item *)
marks_choices(df_csv, responses) ==
    LET short_max == per_question_max_for_short(df_csv)
        qids == short_qids(responses)
        caps == {radio_max(short_max, q) : q \in qids} \cup {1}
        top == CHOOSE n \in caps : \A c \in caps : c <= n
    IN  {m \in [qids -> 0..top] : \A q \in qids : m[q] <= radio_max(short_max, q)}

(* A mutant: the write also stamps Timestamp.                              *)
save_marks_data_stamp(short_marks, auto_score) ==
    [ShortMarks |-> short_marks,
     ShortMarksTotal |-> Float(sum_values(short_marks)),
     AutoScore |-> Num(auto_score),
     TotalScore |-> FAdd(Num(auto_score), Float(sum_values(short_marks))),
     Evaluated |-> TRUE,
     EvaluatedAt |-> "isoformat",
     Timestamp |-> "isoformat"]

(* the dict save_marks writes *)
save_marks_data(short_marks, auto_score) ==
    [ShortMarks |-> short_marks,
     ShortMarksTotal |-> Float(sum_values(short_marks)),
     AutoScore |-> Num(auto_score),
     TotalScore |-> FAdd(Num(auto_score), Float(sum_values(short_marks))),
     Evaluated |-> TRUE,
     EvaluatedAt |-> "isoformat"]

(* row.get("ShortMarksTotal") or 0: a NaN cell is truthy, 0.0 is not *)
row_short_total(row) ==
    IF "ShortMarksTotal" \in DOMAIN row THEN row.ShortMarksTotal ELSE NaNF

recalc_data(auto_score, row) ==
    [AutoScore |-> Num(auto_score),
     TotalScore |-> FAdd(Num(auto_score), row_short_total(row))]

(* ------------------------------ the inputs ------------------------------ *)
Q1 == <<"Q","1">>
Q2 == <<"Q","2">>
Q3 == <<"Q","3">>
Q9 == <<"Q","9">>

Row(qid, type, correct, options, marks, max) ==
    [QuestionID |-> StrCell(qid), Type |-> StrCell(type), Correct |-> correct,
     Options |-> options, Marks |-> marks, Max |-> max,
     MaxMarks |-> NaNCell, Weight |-> NaNCell]

OptXY == <<StrCell(<<"X">>), StrCell(<<" ","y">>)>>

(* three editions of aptitude.csv: the second changes the key of Q1 and    *)
(* replaces the short question, the third has no short question            *)
BankA ==
    [columns |-> {"Marks", "Max"},
     rows |-> <<Row(Q1, <<"M","C","Q">>, StrCell(<<"B">>), OptXY, NumCell(4), NaNCell),
                Row(Q2 \o <<" ">>, <<"s","h","o","r","t">>, NaNCell, <<>>, NaNCell, NumCell(4))>>]
BankB ==
    [columns |-> {},
     rows |-> <<Row(Q1, T_mcq, StrCell(<<"a">>), OptXY, NaNCell, NaNCell),
                Row(Q3, <<"S","h","o","r","t"," ">>, NaNCell, <<>>, NaNCell, NaNCell)>>]
BankC ==
    [columns |-> {"Marks"},
     rows |-> <<Row(Q1, T_mcq, StrCell(<<"x">>), OptXY, NumCell(3), NaNCell)>>]
BankVersions == {BankA, BankB, BankC}

NamePool == {<<"a","l"," ">>}
RollPool == {<<"r","7">>, <<"R","7">>}
TextPool == {<<"t">>}

(* a document graded before this run, in another section: the dashboard    *)
(* indexes the columns Evaluated, ShortMarksTotal, AutoScore and           *)
(* TotalScore, which exist only once some document holds them              *)
SeedId == doc_id(<<"s","0">>, ADAPTABILITY)
SeedDoc ==
    merge_doc(submit_data(<<"s","e","e","d">>, <<"s","0">>, ADAPTABILITY,
                          <<[QuestionID |-> Q2, Type |-> T_short, Response |-> <<"t">>]>>),
              save_marks_data((Q2 :> 1), 0))
SeedStore == (SeedId :> SeedDoc)

NoOp == [op |-> "none", doc |-> <<>>, roll |-> <<>>, section |-> <<>>,
         marks |-> <<>>, auto |-> 0, rep |-> FALSE, n |-> 0]
NoArg == [kind |-> "none"]
NoRet == [done |-> FALSE]

(* a Responses list holds an item of type short (letter case aside); the   *)
(* documents of a collection that hold such a list                          *)
has_short_item(responses) ==
    {i \in 1..Len(responses) : lower(responses[i].Type) = T_short} # {}
docs_with_short(docs) ==
    {d \in DOMAIN docs :
        "Responses" \in DOMAIN docs[d] /\ has_short_item(docs[d].Responses)}

(* the grading sessions (browser tabs of the dashboard), and a session with *)
(* no script run in progress                                                *)
Sessions == {1, 2}
NoRun == [pc |-> "idle", doc |-> <<>>, row |-> <<>>, df_csv |-> <<>>]
NoRuns == [s \in Sessions |-> NoRun]


(* ------------------------------ the actions ----------------------------- *)
Init ==
    /\ store \in {<<>>, SeedStore}
    /\ cache = NoCache
    /\ bank \in BankVersions
    /\ lastOp = NoOp
    /\ arg = NoArg
    /\ runs = NoRuns
    /\ hadShort = docs_with_short(store)
    /\ ret = NoRet

(* main.py, the Submit button: one run of the form and its merge write *)
Submit(name, roll, section, picks, text) ==
    /\ name # <<>> /\ roll # <<>>
    /\ valid_picks(bank.rows, picks)
    /\ LET responses == build_responses(bank.rows, 1, picks, text)
           id == doc_id(roll, section)
       IN  /\ store' = set_merge(store, id,
                                 submit_data(name, roll, section, responses))
           /\ lastOp' = [op |-> "submit", doc |-> id, roll |-> roll,
                         section |-> section, marks |-> <<>>, auto |-> 0,
                         rep |-> id \in DOMAIN store, n |-> 1 - lastOp.n]
           /\ hadShort' = IF has_short_item(responses)
                          THEN hadShort \cup {id} ELSE hadShort
    /\ UNCHANGED <<cache, bank, arg, ret, runs>>

StudentSubmits ==
    \E name \in NamePool, roll \in RollPool, text \in TextPool :
        \E picks \in [1..Len(bank.rows) -> 1..MaxOpts] :
            Submit(name, roll, APTITUDE, picks, text)

(* the dashboard is opened or rerun without a button: the script fetches   *)
(* the submissions, which fills the cache when it holds nothing            *)
ViewPage ==
    /\ ~cache.valid
    /\ cache' = [valid |-> TRUE, docs |-> store]
    /\ UNCHANGED <<store, bank, lastOp, arg, ret, runs, hadShort>>

(* the cache entry's ttl of 20 s runs out *)
CacheExpires ==
    /\ cache.valid
    /\ cache' = NoCache
    /\ UNCHANGED <<store, bank, lastOp, arg, ret, runs, hadShort>>

(* the buttons Save and Save & Next Pending: the script run that the click *)
(* starts, from fetch_submissions to save_marks and st.cache_data.clear()  *)
ClickSave(doc, short_marks) ==
    LET df_all == fetch_submissions
    IN  /\ page_renders(df_all, APTITUDE)
        /\ doc \in section_docs(df_all, APTITUDE)
        /\ LET row == df_all[doc]
               responses == row.Responses
               auto_score == compute_auto_score(bank, responses).score
           IN  /\ get_short_items(responses) # <<>>
               /\ short_marks \in marks_choices(bank, responses)
               /\ store' = set_merge(store, doc,
                                     save_marks_data(short_marks, auto_score))
               /\ lastOp' = [op |-> "save", doc |-> doc, roll |-> <<>>,
                             section |-> <<>>, marks |-> short_marks,
                             auto |-> auto_score,
                             rep |-> /\ lastOp.op = "save" /\ lastOp.doc = doc
                                     /\ lastOp.marks = short_marks
                                     /\ lastOp.auto = auto_score,
                             n |-> 1 - lastOp.n]
        /\ cache' = NoCache
        /\ UNCHANGED <<bank, arg, ret, runs, hadShort>>

FacultySaves ==
    \E doc \in DOMAIN fetch_submissions :
        \E short_marks \in marks_choices(bank, doc_of(fetch_submissions, doc).Responses) :
            ClickSave(doc, short_marks)

(* the button Recalculate AutoScore only *)
ClickRecalc(doc) ==
    LET df_all == fetch_submissions
    IN  /\ page_renders(df_all, APTITUDE)
        /\ doc \in section_docs(df_all, APTITUDE)
        /\ LET row == df_all[doc]
               responses == row.Responses
               auto_score == compute_auto_score(bank, responses).score
           IN  /\ get_short_items(responses) # <<>>
               /\ store' = set_merge(store, doc, recalc_data(auto_score, row))
               /\ lastOp' = [op |-> "recalc", doc |-> doc, roll |-> <<>>,
                             section |-> <<>>, marks |-> <<>>,
                             auto |-> auto_score, rep |-> FALSE,
                             n |-> 1 - lastOp.n]
        /\ cache' = NoCache
        /\ UNCHANGED <<bank, arg, ret, runs, hadShort>>

FacultyRecalcs == \E doc \in DOMAIN fetch_submissions : ClickRecalc(doc)

(* the section CSV is edited on disk *)
EditCsv ==
    /\ bank' \in BankVersions \ {bank}
    /\ UNCHANGED <<store, cache, lastOp, arg, ret, runs, hadShort>>

Next ==
    \/ StudentSubmits
    \/ ViewPage
    \/ CacheExpires
    \/ FacultySaves
    \/ FacultyRecalcs
    \/ EditCsv

Spec == Init /\ [][Next]_vars

(* ---- submissions of several students to all four sections ---- *)
IdRollPool == {<<"r","7">>, <<"R","7">>, <<"r">>}

InitIds ==
    /\ store \in {<<>>, SeedStore}
    /\ cache = NoCache
    /\ bank = BankC
    /\ lastOp = NoOp
    /\ arg = NoArg
    /\ runs = NoRuns
    /\ hadShort = docs_with_short(store)
    /\ ret = NoRet

SubmitsAnySection ==
    \E name \in NamePool, roll \in IdRollPool, section \in files, text \in TextPool :
        Submit(name, roll, section, [i \in 1..Len(bank.rows) |-> 1], text)

SpecIds == InitIds /\ [][SubmitsAnySection]_vars


(* ---- mcq_match on one question row and one student answer ---- *)
RECURSIVE SeqsUpTo(_, _)
SeqsUpTo(S, n) ==
    IF n = 0 THEN {<<>>}
    ELSE LET shorter == SeqsUpTo(S, n - 1)
         IN  shorter \cup {Append(q, x) : q \in {t \in shorter : Len(t) = n - 1}, x \in S}

OptionCellPool == {StrCell(<<"X">>), StrCell(<<" ","y">>), StrCell(<<"b">>),
                   StrCell(<<"2">>), StrCell(<<" ">>), NaNCell}
CorrectPool == {<<"B">>, <<"a">>, <<"1">>, <<"2"," ">>, <<"x">>, <<" ","Y">>,
                <<"z">>}
AnswerPool == {<<>>, <<" ">>, <<"A">>, <<"b"," ">>, <<"1">>, <<"2">>, <<"x">>, <<"Y">>,
               <<" ","Z">>}

one_row_index(row) == df_mcq_index([columns |-> {}, rows |-> <<row>>])[Q1]

InitMatch ==
    /\ store = <<>> /\ cache = NoCache /\ bank = BankA /\ lastOp = NoOp
    /\ ret = NoRet /\ runs = NoRuns /\ hadShort = {}
    /\ \E options \in SeqsUpTo(OptionCellPool, MaxOpts),
          correct \in CorrectPool, ans \in AnswerPool :
           arg = [kind |-> "match",
                  row |-> Row(Q1, T_mcq, StrCell(correct), options, NaNCell, NaNCell),
                  ans |-> ans]

(* the row is indexed and mcq_match is applied to the student's answer,    *)
(* and, for each option slot i, to the three ways of naming it             *)
MatchStep ==
    /\ arg.kind = "match" /\ ~ret.done
    /\ LET qmeta == one_row_index(arg.row)
       IN  ret' = [done |-> TRUE,
                   qmeta |-> qmeta,
                   match |-> mcq_match(arg.ans, qmeta),
                   forms |-> [i \in 1..Len(qmeta.options) |->
                                [text |-> mcq_match(qmeta.options[i], qmeta),
                                 textUpper |-> mcq_match(upper(qmeta.options[i]), qmeta),
                                 letter |-> mcq_match(<<UpperAlpha[i]>>, qmeta),
                                 digit |-> mcq_match(<<Digits[i]>>, qmeta)]]]
    /\ UNCHANGED <<store, cache, bank, lastOp, arg, runs, hadShort>>

SpecMatch == InitMatch /\ [][MatchStep]_vars

(* ---- weight and cap resolution on one question row ---- *)
AliasCellPool == {NaNCell, StrCell(<<"x">>), NumCell(-3), NumCell(0), NumCell(1),
                  NumCell(3), NumCell(6)}
TypePool == {<<"M","C","Q">>, <<"S","h","o","r","t"," ">>}

InitWeight ==
    /\ store = <<>> /\ cache = NoCache /\ bank = BankA /\ lastOp = NoOp
    /\ ret = NoRet /\ runs = NoRuns /\ hadShort = {}
    /\ \E columns \in SUBSET Range(WeightAliases), type \in TypePool :
       \E cells \in [Range(WeightAliases) -> AliasCellPool] :
           /\ \A a \in Range(WeightAliases) \ columns : cells[a] = NaNCell
           /\ arg = [kind |-> "weight",
                     df |-> [columns |-> columns,
                             rows |-> <<[QuestionID |-> StrCell(Q1),
                                         Type |-> StrCell(type),
                                         Correct |-> NaNCell, Options |-> <<>>,
                                         Marks |-> cells["Marks"],
                                         Max |-> cells["Max"],
                                         MaxMarks |-> cells["MaxMarks"],
                                         Weight |-> cells["Weight"]]>>]]

WeightStep ==
    /\ arg.kind = "weight" /\ ~ret.done
    /\ ret' = [done |-> TRUE,
               marks |-> df_mcq_index(arg.df)[Q1].marks,
               caps |-> per_question_max_for_short(arg.df)]
    /\ UNCHANGED <<store, cache, bank, lastOp, arg, runs, hadShort>>

SpecWeight == InitWeight /\ [][WeightStep]_vars

(* ---- compute_auto_score on a bank and a list of responses ---- *)
ScoreBank ==
    [columns |-> {"Marks"},
     rows |-> <<Row(Q1, T_mcq, StrCell(<<"B">>), OptXY, NumCell(4), NaNCell),
                Row(Q2, T_mcq, StrCell(<<"1">>), OptXY, NumCell(0), NaNCell),
                Row(Q3, T_mcq, StrCell(<<"y">>), OptXY, NumCell(3), NaNCell),
                Row(<<"Q","4">>, T_short, NaNCell, <<>>, NaNCell, NaNCell)>>]

Resp(qid, type, response) == [QuestionID |-> qid, Type |-> type, Response |-> response]

ResponsePool == {Resp(Q1, T_mcq, <<"y">>), Resp(Q1, T_mcq, <<"X">>),
                 Resp(<<" ">> \o Q1, <<"M","C","Q">>, <<"b">>),
                 Resp(Q2, T_mcq, <<"X">>), Resp(Q3, T_mcq, <<"2">>),
                 Resp(Q9, T_mcq, <<"y">>), Resp(<<"Q","4">>, T_short, <<"t">>)}

InitScore ==
    /\ store = <<>> /\ cache = NoCache /\ bank = BankA /\ lastOp = NoOp
    /\ ret = NoRet /\ runs = NoRuns /\ hadShort = {}
    /\ \E responses \in SeqsUpTo(ResponsePool, MaxResp) :
           arg = [kind |-> "score", df |-> ScoreBank, responses |-> responses]

ScoreStep ==
    /\ arg.kind = "score" /\ ~ret.done
    /\ LET r == compute_auto_score(arg.df, arg.responses)
       IN  ret' = [done |-> TRUE, score |-> r.score, detail |-> r.detail]
    /\ UNCHANGED <<store, cache, bank, lastOp, arg, runs, hadShort>>

SpecScore == InitScore /\ [][ScoreStep]_vars

(* ------------------------------ the claims ------------------------------ *)
has(doc, f) == f \in DOMAIN doc
evaluated(doc) == has(doc, "Evaluated") /\ doc.Evaluated = TRUE
wrote == lastOp' # lastOp

(* C1: whenever a record holds both an AutoScore and a ShortMarks map, its *)
(* TotalScore equals its AutoScore plus the sum of the values of its       *)
(* ShortMarks map.                                                         *)
C1_TotalIsAutoPlusMarks ==
    \A d \in DOMAIN store :
        (has(store[d], "AutoScore") /\ has(store[d], "ShortMarks")) =>
            /\ has(store[d], "TotalScore")
            /\ store[d].TotalScore =
                   FAdd(store[d].AutoScore, Float(sum_values(store[d].ShortMarks)))

(* C2: the Evaluated flag of a record changes only in a save-marks write   *)
(* to that record and only to true; once true it stays true through every  *)
(* later submission, recompute-only write and save-marks write; no record  *)
(* is ever deleted.                                                        *)
C2_EvaluatedOnlyBySave ==
    [][ /\ DOMAIN store \subseteq DOMAIN store'
        /\ \A d \in DOMAIN store' :
              LET old == evaluated(doc_of(store, d))
                  new == evaluated(store'[d])
              IN  /\ old => new
                  /\ has(doc_of(store, d), "Evaluated") => has(store'[d], "Evaluated")
                  /\ (old # new) => (wrote /\ lastOp'.op = "save" /\ lastOp'.doc = d)
                  /\ (wrote /\ lastOp'.op = "recalc") =>
                         (has(store'[d], "Evaluated") <=> has(doc_of(store, d), "Evaluated"))
      ]_vars

(* a graded record has just been resubmitted by the student *)
C2_Witness ==
    /\ lastOp.op = "submit"
    /\ lastOp.doc \in DOMAIN store
    /\ evaluated(store[lastOp.doc])
    /\ has(store[lastOp.doc], "ShortMarks")

SaveFields == {"ShortMarks", "ShortMarksTotal", "AutoScore", "TotalScore",
               "Evaluated", "EvaluatedAt"}

(* C4: a save_marks write leaves every other record and every field it     *)
(* does not write as they were, and a save_marks write that repeats the    *)
(* one before it (same doc_id, short_marks, auto_score) leaves ShortMarks, *)
(* ShortMarksTotal, AutoScore, TotalScore and Evaluated as the first left  *)
(* them.                                                                   *)
C4_SaveIdempotentMergeOnly ==
    [][ (wrote /\ lastOp'.op = "save") =>
          LET d == lastOp'.doc
          IN  /\ DOMAIN store' = DOMAIN store
              /\ \A e \in DOMAIN store \ {d} : store'[e] = store[e]
              /\ DOMAIN store'[d] = DOMAIN store[d] \cup SaveFields
              /\ \A f \in DOMAIN store[d] \ SaveFields : store'[d][f] = store[d][f]
              /\ lastOp'.rep =>
                    \A f \in SaveFields \ {"EvaluatedAt"} :
                        has(store[d], f) /\ store'[d][f] = store[d][f]
              /\ store'[d].ShortMarksTotal = Float(sum_values(lastOp'.marks))
              /\ store'[d].TotalScore =
                     FAdd(Num(lastOp'.auto), Float(sum_values(lastOp'.marks)))
      ]_vars

(* save_marks has just been called a second time with the same inputs, on  *)
(* a record whose ShortMarks held a key from an earlier question set       *)
C4_Witness ==
    /\ lastOp.op = "save" /\ lastOp.rep
    /\ sum_values(lastOp.marks) > 0
    /\ DOMAIN store[lastOp.doc].ShortMarks # DOMAIN lastOp.marks


(* C6: a submission writes the one document of its (upper-cased roll,      *)
(* section) pair: it leaves the documents of every other pair as they      *)
(* were, adds no document when its pair has one already, and no two        *)
(* documents ever belong to the same pair.                                 *)
C6_OneDocPerRollSection ==
    [][ (wrote /\ lastOp'.op = "submit") =>
          LET mine(doc) == doc.Roll = upper(lastOp'.roll) /\ doc.Section = lastOp'.section
          IN  /\ \A d \in DOMAIN store :
                    ~mine(store[d]) => (d \in DOMAIN store' /\ store'[d] = store[d])
              /\ (\E d \in DOMAIN store : mine(store[d])) => DOMAIN store' = DOMAIN store
              /\ \E d \in DOMAIN store' : mine(store'[d])
              /\ \A d1, d2 \in DOMAIN store' :
                    (store'[d1].Roll = store'[d2].Roll /\
                     store'[d1].Section = store'[d2].Section) => d1 = d2
      ]_vars

(* a student has resubmitted, typing the roll in another letter case, while *)
(* documents of other sections and other rolls exist                        *)
C6_Witness ==
    /\ lastOp.op = "submit" /\ lastOp.rep
    /\ lastOp.roll # store[lastOp.doc].Roll
    /\ \E d \in DOMAIN store :
           store[d].Roll = store[lastOp.doc].Roll /\ d # lastOp.doc
    /\ \E d \in DOMAIN store :
           store[d].Section = lastOp.section /\ d # lastOp.doc


(* ---- answer matching ---- *)
corr_norm == normalize_answer(ret.qmeta.correct)

(* the correct-answer specifier names option slot i (1-based here): as its *)
(* letter, as its 1-based digit, or as its text                            *)
encodes(i) ==
    \/ corr_norm = <<LowerAlpha[i]>>
    \/ corr_norm = <<Digits[i]>>
    \/ corr_norm = ret.qmeta.options[i]

same_for_all_forms(f) ==
    f.text = f.letter /\ f.letter = f.digit /\ f.textUpper = f.text

(* no option text is empty, a letter a-e or a digit 1-5, and no two are    *)
(* equal                                                                   *)
plain_options(opts) ==
    /\ \A i \in 1..Len(opts) :
           opts[i] # <<>> /\ ~in_letters(opts[i]) /\ ~in_nums(opts[i])
    /\ \A i, j \in 1..Len(opts) : opts[i] = opts[j] => i = j

(* C3 as stated: for every normalized option list, every slot i and every  *)
(* correct-answer specifier that encodes i, mcq_match gives the same result *)
(* for the text of option i (in any letter case), the letter for i and the  *)
(* 1-based digit for i.                                                     *)
C3_FormsAgree ==
    ret.done =>
        \A i \in 1..Len(ret.qmeta.options) :
            encodes(i) => same_for_all_forms(ret.forms[i])

(* C3 as amended: when no option text is empty, a letter a-e or a digit    *)
(* 1-5 and no two option texts are equal, the three forms of answer all    *)
(* match a specifier that encodes the same slot.                           *)
C3_FormsAgreeOnPlainOptions ==
    (ret.done /\ plain_options(ret.qmeta.options)) =>
        \A i \in 1..Len(ret.qmeta.options) :
            encodes(i) =>
                /\ same_for_all_forms(ret.forms[i])
                /\ ret.forms[i].text /\ ret.forms[i].letter /\ ret.forms[i].digit

(* two plain options, the key given as the text of the second one *)
C3_Witness ==
    /\ ret.done
    /\ Len(ret.qmeta.options) = 2 /\ plain_options(ret.qmeta.options)
    /\ corr_norm = ret.qmeta.options[2]
    /\ ret.forms[2].digit /\ ~ret.forms[1].digit

unresolvable ==
    /\ ~in_letters(corr_norm) /\ ~in_nums(corr_norm)
    /\ corr_norm \notin Range(ret.qmeta.options)

(* C7 as stated: for a non-empty student answer and a correct-answer       *)
(* specifier that is no letter a-e, no digit 1-5 and no element of the      *)
(* option list, mcq_match returns false.                                    *)
C7_UnresolvableNeverMatches ==
    (ret.done /\ arg.ans # <<>> /\ unresolvable) => ~ret.match

(* C7 as amended: with such a specifier mcq_match returns false when the   *)
(* normalized answer is blank, an option text, a letter a-e or a digit      *)
(* 1-5; for any other answer it returns whether the normalized answer       *)
(* equals the normalized specifier.                                         *)
C7_UnresolvableFallsBackToText ==
    (ret.done /\ arg.ans # <<>> /\ unresolvable) =>
        LET a == normalize_answer(arg.ans)
        IN  ret.match <=>
                /\ a # <<>>
                /\ a \notin Range(ret.qmeta.options)
                /\ ~in_letters(a) /\ ~in_nums(a)
                /\ a = corr_norm

(* an unresolvable key, and an answer that names the first option by its   *)
(* letter                                                                  *)
C7_Witness ==
    /\ ret.done /\ unresolvable
    /\ Len(ret.qmeta.options) >= 1
    /\ normalize_answer(arg.ans) = <<"a">>
    /\ ~ret.match

(* ---- weight and cap resolution ---- *)
the_row == arg.df.rows[1]
present(a) == a \in arg.df.columns /\ the_row[a].k # "nan"
numeric(a) == a \in arg.df.columns /\ the_row[a].k = "num"

BeforeInWeightOrder ==
    [Marks |-> {}, Max |-> {"Marks"}, MaxMarks |-> {"Marks", "Max"},
     Weight |-> {"Marks", "Max", "MaxMarks"}]
BeforeInCapOrder ==
    [Max |-> {}, Marks |-> {"Max"}, MaxMarks |-> {"Marks", "Max"},
     Weight |-> {"Marks", "Max", "MaxMarks"}]
Aliases == {"Marks", "Max", "MaxMarks", "Weight"}

(* C8 as stated: the weight is the value of the first alias, in the order  *)
(* Marks, Max, MaxMarks, Weight, that holds a number, an alias holding a    *)
(* non-numeric value being passed over; 1.0 when no alias holds a number.   *)
C8_WeightSkipsNonNumeric ==
    ret.done =>
        /\ \A a \in Aliases :
               (numeric(a) /\ \A b \in BeforeInWeightOrder[a] : ~numeric(b)) =>
                   ret.marks = the_row[a].v
        /\ (\A a \in Aliases : ~numeric(a)) => ret.marks = 2

(* C8 as amended: the weight is decided by the first alias, in the order   *)
(* Marks, Max, MaxMarks, Weight, whose column exists and whose cell is not  *)
(* empty: its value when that is a number, 1.0 when it is not a number      *)
(* (later aliases are not consulted); 1.0 when there is no such alias.      *)
C8_WeightFromFirstPresentAlias ==
    ret.done =>
        /\ \A a \in Aliases :
               (present(a) /\ \A b \in BeforeInWeightOrder[a] : ~present(b)) =>
                   ret.marks = (IF numeric(a) THEN the_row[a].v ELSE 2)
        /\ (\A a \in Aliases : ~present(a)) => ret.marks = 2

(* Marks holds text and Max holds 3.0 *)
C8_Witness ==
    /\ ret.done
    /\ present("Marks") /\ ~numeric("Marks")
    /\ numeric("Max") /\ the_row["Max"].v = 6
    /\ ret.marks = 2

is_short_row == lower(strip(str(the_row.Type))) = T_short

(* C10 as stated: for a short row the cap is max(1, integer part of the     *)
(* weight df_mcq_index resolves for the row).                               *)
C10_CapFollowsWeight ==
    (ret.done /\ is_short_row) =>
        /\ Q1 \in DOMAIN ret.caps
        /\ ret.caps[Q1] = max2(1, int_of(ret.marks))

(* C10 as amended: for a short row the cap is an integer >= 1 decided by    *)
(* the first present alias in the order Max, Marks, MaxMarks, Weight: the   *)
(* larger of 1 and the integer part of its value when that is a number, 1   *)
(* when it is not, 1 when no alias is present; it equals max(1, integer     *)
(* part of the weight) whenever Marks and Max are not both present.         *)
C10_CapFromFirstPresentAliasMaxFirst ==
    (ret.done /\ is_short_row) =>
        /\ Q1 \in DOMAIN ret.caps
        /\ ret.caps[Q1] >= 1
        /\ \A a \in Aliases :
               (present(a) /\ \A b \in BeforeInCapOrder[a] : ~present(b)) =>
                   ret.caps[Q1] =
                       (IF numeric(a) /\ the_row[a].v >= 2
                        THEN the_row[a].v \div 2 ELSE 1)
        /\ (\A a \in Aliases : ~present(a)) => ret.caps[Q1] = 1
        /\ ~(present("Marks") /\ present("Max")) =>
               ret.caps[Q1] = max2(1, int_of(ret.marks))

(* a short row with Marks 1.5 and Max 3.0 *)
C10_Witness ==
    /\ ret.done /\ is_short_row
    /\ numeric("Marks") /\ the_row["Marks"].v = 3
    /\ numeric("Max") /\ the_row["Max"].v = 6
    /\ ret.caps[Q1] = 3


(* ---- automatic score ---- *)
the_index == df_mcq_index(arg.df)

(* the response is of type mcq and its QuestionID is in the bank *)
counted(r) == lower(r.Type) = T_mcq /\ strip(r.QuestionID) \in DOMAIN the_index

Perms(n) == {p \in [1..n -> 1..n] : \A i, j \in 1..n : p[i] = p[j] => i = j}
permuted(l, p) == [i \in 1..Len(l) |-> l[p[i]]]

RECURSIVE only_mcq(_)
only_mcq(l) ==
    IF l = <<>> THEN <<>>
    ELSE (IF lower(Head(l).Type) = T_mcq THEN <<Head(l)>> ELSE <<>>) \o only_mcq(Tail(l))

same_result(l) ==
    LET r == compute_auto_score(arg.df, l)
    IN  r.score = ret.score /\ r.detail = ret.detail

same_score(l) == compute_auto_score(arg.df, l).score = ret.score

distinct_counted_ids(l) ==
    \A i, j \in 1..Len(l) :
        (counted(l[i]) /\ counted(l[j]) /\
         strip(l[i].QuestionID) = strip(l[j].QuestionID)) => i = j

RECURSIVE weight_sum(_)
weight_sum(l) ==
    IF l = <<>> THEN 0
    ELSE (IF counted(Head(l)) /\
             mcq_match(Head(l).Response, the_index[strip(Head(l).QuestionID)])
          THEN the_index[strip(Head(l).QuestionID)].marks ELSE 0)
         + weight_sum(Tail(l))

(* the last response of the list that is counted for question q *)
last_for(l, q) ==
    l[CHOOSE i \in 1..Len(l) :
         /\ counted(l[i]) /\ strip(l[i].QuestionID) = q
         /\ \A j \in (i + 1)..Len(l) :
                ~(counted(l[j]) /\ strip(l[j].QuestionID) = q)]

(* C9: the score is the sum, over the mcq responses whose QuestionID is in *)
(* the bank and whose answer matches, of the question's resolved weight (a  *)
(* weight of 0 included); the map's keys are the QuestionIDs of the in-bank *)
(* mcq responses, with 1 on match and 0 otherwise (for a QuestionID given   *)
(* twice, of the last response); other responses change neither.            *)
C9_ScoreIsSumOfWeights ==
    ret.done =>
        /\ ret.score = weight_sum(arg.responses)
        /\ DOMAIN ret.detail =
               {strip(r.QuestionID) : r \in {x \in Range(arg.responses) : counted(x)}}
        /\ \A q \in DOMAIN ret.detail :
               ret.detail[q] =
                   (IF mcq_match(last_for(arg.responses, q).Response, the_index[q])
                    THEN 1 ELSE 0)

(* the short-answer total a record holds, 0.0 when it holds none *)
persisted_short_total(doc) ==
    IF has(doc, "ShortMarksTotal") THEN doc.ShortMarksTotal ELSE Num(0)

RecalcFields == {"AutoScore", "TotalScore"}

(* C11: a recompute-only write sets AutoScore to the automatic score just   *)
(* computed and TotalScore to that score plus the short-answer total the    *)
(* record holds at the moment of the write (0 when it holds none), and      *)
(* leaves every other field of the record, and every other record, as it    *)
(* was.                                                                     *)
C11_RecalcAddsPersistedShortTotal ==
    [][ (wrote /\ lastOp'.op = "recalc") =>
          LET d == lastOp'.doc
          IN  /\ DOMAIN store' = DOMAIN store
              /\ \A e \in DOMAIN store \ {d} : store'[e] = store[e]
              /\ DOMAIN store'[d] = DOMAIN store[d] \cup RecalcFields
              /\ \A f \in DOMAIN store[d] \ RecalcFields : store'[d][f] = store[d][f]
              /\ store'[d].AutoScore = Num(lastOp'.auto)
              /\ store'[d].TotalScore =
                     FAdd(Num(lastOp'.auto), persisted_short_total(store[d]))
      ]_vars

(* C12: in every reachable state every key of a record's ShortMarks map is *)
(* the QuestionID (surrounding blanks aside) of a short-type response in    *)
(* the record's current Responses list.                                     *)
C12_ShortMarksKeysAreShortResponses ==
    \A d \in DOMAIN store :
        has(store[d], "ShortMarks") =>
            /\ has(store[d], "Responses")
            /\ DOMAIN store[d].ShortMarks \subseteq short_qids(store[d].Responses)

(* ---- two grading sessions on one submission, script runs interleaved ---- *)
(* the record both sessions work on: submitted under the CSV b and graded   *)
(* once with 0 for every short answer                                       *)
RaceDoc(b, picks) ==
    LET responses == build_responses(b.rows, 1, picks, <<"t">>)
    IN  merge_doc(submit_data(<<"a","l">>, <<"r","7">>, APTITUDE, responses),
                  save_marks_data([q \in short_qids(responses) |-> 0],
                                  compute_auto_score(b, responses).score))

RaceId == doc_id(<<"r","7">>, APTITUDE)

InitRace ==
    /\ bank \in {BankA, BankB}
    /\ \E picks \in [1..Len(bank.rows) -> 1..MaxOpts] :
           /\ valid_picks(bank.rows, picks)
           /\ store = (RaceId :> RaceDoc(bank, picks))
    /\ cache = NoCache
    /\ lastOp = NoOp
    /\ arg = NoArg
    /\ ret = NoRet
    /\ runs = NoRuns
    /\ hadShort = docs_with_short(store)

(* a script run of session s, from its start to the rendered grading form: *)
(* load_section_csv, fetch_submissions (which fills the cache when nothing  *)
(* is cached) and the choice of the row                                     *)
RunStarts(s) ==
    LET df_all == fetch_submissions
    IN  /\ runs[s].pc = "idle"
        /\ page_renders(df_all, APTITUDE)
        /\ RaceId \in section_docs(df_all, APTITUDE)
        /\ get_short_items(df_all[RaceId].Responses) # <<>>
        /\ runs' = [runs EXCEPT ![s] = [pc |-> "form", doc |-> RaceId,
                                        row |-> df_all[RaceId], df_csv |-> bank]]
        /\ cache' = [valid |-> TRUE, docs |-> df_all]
        /\ UNCHANGED <<store, bank, lastOp, arg, ret, hadShort>>

(* the rest of the run when Save or Save & Next Pending was clicked *)
RunSaves(s, short_marks) ==
    /\ runs[s].pc = "form"
    /\ LET run == runs[s]
           auto_score == compute_auto_score(run.df_csv, run.row.Responses).score
       IN  /\ short_marks \in marks_choices(run.df_csv, run.row.Responses)
           /\ store' = set_merge(store, run.doc,
                                 save_marks_data(short_marks, auto_score))
           /\ lastOp' = [op |-> "save", doc |-> run.doc, roll |-> <<>>,
                         section |-> <<>>, marks |-> short_marks,
                         auto |-> auto_score,
                         rep |-> /\ lastOp.op = "save" /\ lastOp.doc = run.doc
                                 /\ lastOp.marks = short_marks
                                 /\ lastOp.auto = auto_score,
                         n |-> 1 - lastOp.n]
    /\ cache' = NoCache
    /\ runs' = [runs EXCEPT ![s] = NoRun]
    /\ UNCHANGED <<bank, arg, ret, hadShort>>

SessionSaves ==
    \E s \in Sessions :
        \E short_marks \in marks_choices(runs[s].df_csv, doc_of(runs[s].row, "Responses")) :
            RunSaves(s, short_marks)

(* the rest of the run when Recalculate AutoScore only was clicked *)
RunRecalcs(s) ==
    /\ runs[s].pc = "form"
    /\ LET run == runs[s]
           auto_score == compute_auto_score(run.df_csv, run.row.Responses).score
       IN  /\ store' = set_merge(store, run.doc, recalc_data(auto_score, run.row))
           /\ lastOp' = [op |-> "recalc", doc |-> run.doc, roll |-> <<>>,
                         section |-> <<>>, marks |-> <<>>,
                         auto |-> auto_score, rep |-> FALSE,
                         n |-> 1 - lastOp.n]
    /\ cache' = NoCache
    /\ runs' = [runs EXCEPT ![s] = NoRun]
    /\ UNCHANGED <<bank, arg, ret, hadShort>>

SessionStarts == \E s \in Sessions : RunStarts(s)
SessionRecalcs == \E s \in Sessions : RunRecalcs(s)

NextRace ==
    \/ SessionStarts
    \/ SessionSaves
    \/ SessionRecalcs

SpecRace == InitRace /\ [][NextRace]_vars

(* C13: with two grading sessions on one submission, each write an atomic   *)
(* merge, after every interleaving of their save-marks and recompute-only   *)
(* writes the record has TotalScore = AutoScore + ShortMarksTotal.          *)
C13_TotalIsAutoPlusShortTotal ==
    \A d \in DOMAIN store :
        (has(store[d], "AutoScore") /\ has(store[d], "ShortMarksTotal")) =>
            /\ has(store[d], "TotalScore")
            /\ store[d].TotalScore =
                   FAdd(store[d].AutoScore, store[d].ShortMarksTotal)

graded(doc) ==
    evaluated(doc) \/ has(doc, "AutoScore") \/ has(doc, "TotalScore")

(* C14 as stated: a record whose Responses hold no short-type item is not   *)
(* evaluated and holds neither AutoScore nor TotalScore.                    *)
C14_NoShortItemNeverGraded ==
    \A d \in DOMAIN store :
        (has(store[d], "Responses") /\ ~has_short_item(store[d].Responses)) =>
            ~graded(store[d])

(* C14 as amended: a record whose Responses have never held a short-type    *)
(* item is not evaluated and holds neither AutoScore nor TotalScore, and    *)
(* every save-marks or recompute-only write is made from a fetched row      *)
(* (cached or fresh) whose Responses hold a short-type item.                *)
C14_NeverShortNeverGraded ==
    /\ [](\A d \in DOMAIN store : d \notin hadShort => ~graded(store[d]))
    /\ [][ (wrote /\ lastOp'.op \in {"save", "recalc"}) =>
              /\ lastOp'.doc \in DOMAIN fetch_submissions
              /\ has_short_item(fetch_submissions[lastOp'.doc].Responses)
              /\ lastOp'.doc \in hadShort
         ]_vars

(* the dashboard has fetched a resubmitted record that never held a         *)
(* short-type item, while the section CSV now has a short question          *)
C14_Witness ==
    /\ lastOp.op = "submit" /\ lastOp.rep
    /\ lastOp.doc \notin hadShort
    /\ cache.valid /\ page_renders(cache.docs, APTITUDE)
    /\ lastOp.doc \in section_docs(cache.docs, APTITUDE)
    /\ cache.docs[lastOp.doc] = store[lastOp.doc]
    /\ DOMAIN per_question_max_for_short(bank) # {}

====
